---- MODULE Spec2Model ----
(***************************************************************************)
(* State-machine model of the rsync job orchestrator.                      *)
(*                                                                         *)
(*   SyncManager  (src/src/sync_manager.py)  the job registry, the child   *)
(*                process execution path and the four signals              *)
(*                                                                         *)
(* A call of start_sync is modelled as a frame on a call stack whose pc    *)
(* names the source line the call will execute next.  The steps are cut    *)
(* where the call interacts with its environment: the path test, the       *)
(* launch of the child process, the blocking wait on it and every signal   *)
(* emission.  Signals are delivered synchronously; the application itself  *)
(* connects no slot to them, so under Spec a subscriber only observes.     *)
(*                                                                         *)
(*   RsyncTrayApp (src/src/main.py)  sync_all and the auto-sync timers     *)
(*                                                                         *)
(* events, spawned, returned and lastOp are history variables: what the    *)
(* current (or most recent) top-level call is, and what it has emitted,    *)
(* launched and returned.                                                  *)
(***************************************************************************)
EXTENDS Integers, Sequences, FiniteSets, TLC

VARIABLES
    jobs,               \* SyncManager.jobs: insertion-ordered dict, a sequence of job records
    running_processes,  \* SyncManager.running_processes: job name -> process
    stack,              \* call stack of start_sync frames, innermost last
    events,             \* signals emitted since the current top-level call began
    spawned,            \* processes launched since the current top-level call began
    returned,           \* start_sync calls completed since the current top-level call began
    loop,               \* the dict iterator of a running start_all_sync / sync_all
    lastOp,             \* the current (or most recent) top-level call
    timers,             \* RsyncTrayApp.app._timers: the running timers of the last setup_timers
    stale,              \* running timers that are no longer in app._timers
    held,               \* a mapping some caller got from get_jobs and still holds
    config,             \* the configuration file ~/.config/rsync-tray/config.json
    dialog,             \* the open ConfigDialog, if any
    clock               \* the time in ms and the time each timer of app._timers is due

vars == <<jobs, running_processes, stack, events, spawned, returned, loop,
          lastOp, timers, stale, held, config, dialog, clock>>

ui == <<config, dialog>>

app == <<timers, stale, held, config, dialog, clock>>

----------------------------------------------------------------------------
(* Bounds and input domains                                                *)

MaxOpts == 2            \* longest options sequence handed to add_job

\* Entries the table of a dict takes during one loop over it
MaxSlots == 3

\* start_sync calls in progress at once, one inside the other
MaxDepth == 2

JobNames   == {"job1", "job2"}
SourceDirs == {"/test/source1", "/test/source2"}
DestDirs   == {"/test/dest1"}
Tokens     == {"-av", "--delete"}
AutoSyncs  == {FALSE}
Intervals  == {60}

\* What communicate() can report of a finished process: exit status and the
\* captured standard output and standard error
ProcessResults ==
    {[rc |-> 0,  stdout |-> "Output", stderr |-> ""],
     [rc |-> 1,  stdout |-> "", stderr |-> "Permission denied"],
     [rc |-> 13, stdout |-> "Output", stderr |-> "Permission denied"]}

OptionSeqs == UNION {[1..k -> Tokens] : k \in 0..MaxOpts}

\* Python's Optional: None is the empty sequence, a value v is <<v>>
None == <<>>
Some(v) == <<v>>

\* Exceptions the environment can raise inside the try block: Popen failing
\* to launch, communicate failing (with text=True it decodes the captured
\* output).  All of them derive from Exception.
LaunchErrors ==
    {[type |-> "Exception", text |-> "Test exception"]}

WaitErrors ==
    {[type |-> "UnicodeDecodeError",
      text |-> "'utf-8' codec can't decode byte 0xff in position 0: invalid start byte"]}

----------------------------------------------------------------------------
(* The insertion-ordered dict self.jobs                                    *)

Keys(d) == {d[i].name : i \in 1..Len(d)}

\* the names of a sequence of records, in order
NamesOf(recs) == [i \in 1..Len(recs) |-> recs[i].name]

Has(d, n) == n \in Keys(d)

Get(d, n) == d[CHOOSE i \in 1..Len(d) : d[i].name = n]

\* d[n].update(v) with the schedule of v left out: an existing entry keeps its
\* auto_sync and interval
DictSetKeepsSchedule(d, n, v) ==
    IF Has(d, n)
    THEN [i \in 1..Len(d) |->
            IF d[i].name = n
            THEN [v EXCEPT !.auto_sync = d[i].auto_sync,
                           !.interval = d[i].interval]
            ELSE d[i]]
    ELSE Append(d, v)

\* d[n] = v: an existing key keeps its position, a new key goes last
DictSet(d, n, v) ==
    IF Has(d, n)
    THEN [i \in 1..Len(d) |-> IF d[i].name = n THEN v ELSE d[i]]
    ELSE Append(d, v)

\* d.popitem(): the last entry goes, whatever its key
DictDelLast(d, n) == SubSeq(d, 1, Len(d) - 1)

\* del d[n]
DictDel(d, n) == SelectSeq(d, LAMBDA j : j.name # n)

----------------------------------------------------------------------------
(* Signals                                                                 *)

Started(n)      == [kind |-> "Started", job |-> n]
Finished(n, ok) == [kind |-> "Finished", job |-> n, success |-> ok]
Error(n, m)     == [kind |-> "Error", job |-> n, message |-> m]
Progress(n, p)  == [kind |-> "Progress", job |-> n, percent |-> p]

----------------------------------------------------------------------------
(* Pure pieces of start_sync                                               *)

DefaultOptions == <<"-av", "--delete">>

\* source and destination swapped
BuildCommandSwapped(job) ==
    <<"rsync">> \o job.options \o <<job.dest_dir, job.source_dir>>

BuildCommand(job) ==
    <<"rsync">> \o job.options \o <<job.source_dir, job.dest_dir>>

\* the test inverted
IsSuccessInverted(rc) == rc # 0

IsSuccess(rc) == rc = 0

\* str(e)
ExceptionText(e) == e.text

\* except Exception: every class raised here derives from Exception
\* the handler misses the base class and the codec errors
ExceptionClassesNoBase ==
    {"OSError", "FileNotFoundError", "PermissionError", "ValueError",
     "LookupError", "KeyError"}

ExceptionClasses ==
    {"Exception", "OSError", "FileNotFoundError", "PermissionError",
     "ValueError", "UnicodeDecodeError", "LookupError", "KeyError"}

\* except OSError instead of except Exception
CaughtOSErrorOnly(e) ==
    e.type \in {"OSError", "FileNotFoundError", "PermissionError"}

Caught(e) == e.type \in ExceptionClasses

KeyError(n) == [type |-> "KeyError", text |-> "'" \o n \o "'"]

\* the wrong signal
EmitNotFoundAsFinished(name) == Finished(name, FALSE)

EmitNotFound(name) == Error(name, "Sync job not found")

\* the wrong path in the message
EmitSourceMissingDest(name, job) ==
    Error(name, "Source directory does not exist: " \o job.dest_dir)

EmitSourceMissing(name, job) ==
    Error(name, "Source directory does not exist: " \o job.source_dir)

\* sync_finished right after the launch
EmitFinishedAtLaunch(name) == Finished(name, TRUE)

EmitStarted(name) == Started(name)

\* the end of the transfer reported as progress
EmitProgressDone(name) == Progress(name, 100)

EmitFinishedTrue(name) == Finished(name, TRUE)

\* the wrong stream
EmitProcessErrorStdout(name, stdout, stderr) == Error(name, stdout)

EmitProcessError(name, stdout, stderr) == Error(name, stderr)

\* the wrong flag
EmitFinishedFalseAsTrue(name) == Finished(name, TRUE)

EmitFinishedFalse(name) == Finished(name, FALSE)

\* the class name instead of str(e)
EmitExceptionType(name, e) == Error(name, e.type)

EmitException(name, e) == Error(name, ExceptionText(e))

EmitExceptionFinished(name) == Finished(name, FALSE)

----------------------------------------------------------------------------
(* Call stack                                                              *)

Top == stack[Len(stack)]

Pop == SubSeq(stack, 1, Len(stack) - 1)

\* The state a call sees: the registry, the markers and how many processes
\* have been launched
SnapshotOf(rp, sp) ==
    [jobs |-> jobs, running |-> rp, spawned |-> Len(sp)]

\* sp is the launch history at the moment of the call
NewFrame(n, sp) ==
    [name      |-> n,
     pc        |-> "L40",
     job       |-> None,       \* the record read at line 44
     srcExists |-> None,       \* what os.path.exists answered at line 47
     launch    |-> "none",     \* "none", "ok" (Popen returned), "failed" (Popen raised)
     proc      |-> 0,          \* the process Popen returned
     rc        |-> None,       \* process.returncode after communicate
     stdout    |-> "",
     stderr    |-> "",
     exc       |-> None,       \* the exception raised inside the try block
     emitted   |-> <<>>,       \* the signals this call has emitted
     entry     |-> SnapshotOf(running_processes, sp),   \* registry, markers and launches when the call began
     exit      |-> None]       \* the same when it returned

\* The call goes on at f.pc after emitting evs
Continue(f, evs) ==
    /\ stack' = [stack EXCEPT ![Len(stack)] = [f EXCEPT !.emitted = @ \o evs]]
    /\ events' = events \o evs
    /\ UNCHANGED <<returned, loop, lastOp>>

\* The call emits evs and returns to its caller
Return(f, evs, rp, sp) ==
    /\ stack' = Pop
    /\ events' = events \o evs
    /\ returned' = Append(returned,
          [f EXCEPT !.emitted = @ \o evs,
                    !.pc = "returned",
                    !.exit = Some(SnapshotOf(rp, sp))])
    /\ lastOp' = IF Len(stack) = 1 /\ loop = None
                 THEN [lastOp EXCEPT !.result = "returned"]
                 ELSE lastOp
    /\ UNCHANGED loop

\* An exception leaves start_sync: no caller in the program handles it, so
\* the whole stack unwinds, through the loop of start_all_sync / sync_all too
Propagate(f) ==
    /\ stack' = <<>>
    /\ events' = events
    /\ loop' = None
    /\ lastOp' = [lastOp EXCEPT !.result = "raised"]
    /\ returned' = Append(returned,
          [f EXCEPT !.pc = "raised",
                    !.exit = Some(SnapshotOf(running_processes, spawned))])

\* Python object identity of a new Popen object: any identity not held by a
\* live reference; the smallest free one is taken
ProcsInUse ==
    {running_processes[n] : n \in DOMAIN running_processes}
        \cup {stack[i].proc : i \in 1..Len(stack)}

NewProc ==
    CHOOSE p \in 1..(Cardinality(ProcsInUse) + 1) :
        /\ p \notin ProcsInUse
        /\ \A q \in 1..(p - 1) : q \in ProcsInUse

----------------------------------------------------------------------------
(* Initial state: SyncManager.__init__                                     *)

Init ==
    /\ jobs = <<>>
    /\ running_processes = <<>>
    /\ stack = <<>>
    /\ events = <<>>
    /\ spawned = <<>>
    /\ returned = <<>>
    /\ loop = None
    /\ lastOp = [op |-> "init", name |-> "", args |-> None,
                 result |-> "returned"]
    /\ timers = <<>>
    /\ stale = {}
    /\ held = None
    /\ config = [kind |-> "missing"]
    /\ dialog = None
    /\ clock = [now |-> 0, armed |-> 0, due |-> <<>>]

\* No call is in progress: the host event loop is free to dispatch the next
\* action or timer
Idle == stack = <<>> /\ loop = None

\* A top-level call op(name, args) begins
Begin(op, name, args, result) ==
    /\ events' = <<>>
    /\ spawned' = <<>>
    /\ returned' = <<>>
    /\ lastOp' = [op |-> op, name |-> name, args |-> args, result |-> result]

----------------------------------------------------------------------------
(* Registry operations                                                     *)

\* `if not options`: an empty list is taken for no list
StoredOptionsFalsy(options) ==
    IF options = None \/ options = Some(<<>>) THEN DefaultOptions
                                              ELSE options[1]

\* lines 17-18: `if options is None`
StoredOptions(options) ==
    IF options = None THEN DefaultOptions ELSE options[1]

\* line 16: the values auto_sync and interval take when the call leaves
\* them out
DefaultAutoSync == FALSE

DefaultInterval == 60

add_job(name, source_dir, dest_dir, options, auto_sync, interval) ==
    /\ Idle
    /\ jobs' = DictSet(jobs, name,
          [name       |-> name,
           source_dir |-> source_dir,
           dest_dir   |-> dest_dir,
           options    |-> StoredOptions(options),
           auto_sync  |-> auto_sync,
           interval   |-> interval])
    /\ Begin("add_job", name,
             Some([source_dir |-> source_dir, dest_dir |-> dest_dir,
                   options |-> options, auto_sync |-> auto_sync,
                   interval |-> interval]),
             "returned")
    /\ UNCHANGED <<running_processes, stack, loop, app>>

remove_job(name) ==
    /\ Idle
    /\ jobs' = IF Has(jobs, name) THEN DictDel(jobs, name) ELSE jobs
    /\ Begin("remove_job", name, Some([found |-> Has(jobs, name)]), "returned")
    /\ UNCHANGED <<running_processes, stack, loop, app>>

\* What a caller holds once self.jobs has been bound to a new dict
HeldAfterClear ==
    IF held # None /\ held[1].live
    THEN Some([held[1] EXCEPT !.live = FALSE, !.value = jobs])
    ELSE held

\* the markers of the jobs go with the jobs
ClearJobsAndMarkers ==
    /\ Idle
    /\ jobs' = <<>>
    /\ running_processes' = <<>>
    /\ Begin("clear_jobs", "", None, "returned")
    /\ UNCHANGED <<stack, loop, app>>

\* self.jobs = {} binds the attribute to a new dict: a caller that holds the
\* old dict keeps it, with the entries it had
clear_jobs ==
    /\ Idle
    /\ jobs' = <<>>
    /\ held' = HeldAfterClear
    /\ Begin("clear_jobs", "", None, "returned")
    /\ UNCHANGED <<running_processes, stack, loop, timers, stale, ui, clock>>

\* The mapping a caller got from get_jobs: the registry's dict itself while
\* live, the dict that clear_jobs left behind otherwise
HeldValue == IF held[1].live THEN jobs ELSE held[1].value

\* sync_manager.py lines 33-34: return self.jobs.  asReturned is history:
\* the entries of the mapping when it was returned, less those the caller
\* has deleted from it since
get_jobs ==
    /\ Idle
    /\ held' = Some([live |-> TRUE, value |-> <<>>, asReturned |-> jobs])
    /\ Begin("get_jobs", "", None, "returned")
    /\ UNCHANGED <<jobs, running_processes, stack, loop, timers, stale, ui, clock>>

\* The caller deletes an entry of the mapping it holds
HolderDel ==
    /\ Idle
    /\ held # None
    /\ \E name \in Keys(HeldValue) :
          /\ IF held[1].live
             THEN /\ jobs' = DictDel(jobs, name)
                  /\ held' = Some([held[1] EXCEPT
                         !.asReturned = DictDel(held[1].asReturned, name)])
             ELSE /\ jobs' = jobs
                  /\ held' = Some([held[1] EXCEPT
                         !.value = DictDel(held[1].value, name),
                         !.asReturned = DictDel(held[1].asReturned, name)])
          /\ Begin("holder_del", name, None, "returned")
    /\ UNCHANGED <<running_processes, stack, loop, timers, stale, ui, clock>>

----------------------------------------------------------------------------
(* start_sync                                                              *)

\* A top-level caller (a menu action, a timer, a test) calls start_sync(name)
CallStartSync(name) ==
    /\ Idle
    /\ stack' = <<NewFrame(name, <<>>)>>
    /\ Begin("start_sync", name, None, "running")
    /\ UNCHANGED <<jobs, running_processes, loop, app>>

\* lines 40-49: the lookup and the source directory test; exists is the
\* answer of os.path.exists(job['source_dir']), which the disk decides
CheckJob ==
    /\ stack # <<>>
    /\ Top.pc = "L40"
    /\ LET f == Top
           n == Top.name
       IN  IF ~ Has(jobs, n)
           THEN Return(f, <<EmitNotFound(n)>>, running_processes, spawned)
           ELSE \E exists \in BOOLEAN :
                LET job == Get(jobs, n)
                    g   == [f EXCEPT !.job = Some(job),
                                     !.srcExists = Some(exists)]
                IN  IF ~ exists
                    THEN Return(g, <<EmitSourceMissing(n, job)>>,
                                running_processes, spawned)
                    ELSE Continue([g EXCEPT !.pc = "L52"], <<>>)
    /\ UNCHANGED <<jobs, running_processes, spawned, app>>

\* a marker that is already set is kept
MarkerSetIfAbsent(rp, n, p) ==
    [k \in DOMAIN rp \cup {n} |-> IF k \in DOMAIN rp THEN rp[k] ELSE p]

\* line 64: self.running_processes[name] = process
MarkerSet(rp, n, p) ==
    [k \in DOMAIN rp \cup {n} |-> IF k = n THEN p ELSE rp[k]]

\* lines 52-62: build the command and launch it; when Popen raises the call
\* enters the except clause
Launch ==
    /\ stack # <<>>
    /\ Top.pc = "L52"
    /\ LET f   == Top
           n   == Top.name
           cmd == BuildCommand(Top.job[1])
       IN  \/ \* Popen returns a process
              /\ spawned' = Append(spawned,
                    [proc |-> NewProc, cmd |-> cmd, job |-> f.job[1]])
              /\ Continue([f EXCEPT !.launch = "ok", !.proc = NewProc,
                                    !.pc = "L64"],
                          <<>>)
           \/ \* Popen raises
              \E e \in LaunchErrors :
                  /\ UNCHANGED spawned
                  /\ LET g == [f EXCEPT !.launch = "failed", !.exc = Some(e)]
                     IN  IF Caught(e)
                         THEN Continue([g EXCEPT !.pc = "L82"],
                                       <<EmitException(n, e)>>)
                         ELSE Propagate(g)
    /\ UNCHANGED <<jobs, running_processes, app>>

\* lines 64-65: the process is running; record it as the job's marker, over
\* any marker the name already has, and emit sync_started
MarkStarted ==
    /\ stack # <<>>
    /\ Top.pc = "L64"
    /\ running_processes' = MarkerSet(running_processes, Top.name, Top.proc)
    /\ Continue([Top EXCEPT !.pc = "L68"], <<EmitStarted(Top.name)>>)
    /\ UNCHANGED <<jobs, spawned, app>>

\* lines 68-74: block until the process exits, then classify the result
Communicate ==
    /\ stack # <<>>
    /\ Top.pc = "L68"
    /\ LET f == Top
           n == Top.name
       IN  \/ \* communicate returns
              \E r \in ProcessResults :
                  LET g == [f EXCEPT !.rc = Some(r.rc), !.stdout = r.stdout,
                                     !.stderr = r.stderr]
                  IN  IF IsSuccess(r.rc)
                      THEN Continue([g EXCEPT !.pc = "L78"],
                                    <<EmitFinishedTrue(n)>>)
                      ELSE Continue([g EXCEPT !.pc = "L75"],
                                    <<EmitProcessError(n, r.stdout, r.stderr)>>)
           \/ \* communicate raises
              \E e \in WaitErrors :
                  LET g == [f EXCEPT !.exc = Some(e)]
                  IN  IF Caught(e)
                      THEN Continue([g EXCEPT !.pc = "L82"],
                                    <<EmitException(n, e)>>)
                      ELSE Propagate(g)
    /\ UNCHANGED <<jobs, running_processes, spawned, app>>

\* line 75: sync_finished(name, False) after the error of a non-zero exit
FinishFailed ==
    /\ stack # <<>>
    /\ Top.pc = "L75"
    /\ Continue([Top EXCEPT !.pc = "L78"], <<EmitFinishedFalse(Top.name)>>)
    /\ UNCHANGED <<jobs, running_processes, spawned, app>>

\* line 78: del self.running_processes[name], then the call returns; a
\* missing key raises KeyError into the except clause
CleanUp ==
    /\ stack # <<>>
    /\ Top.pc = "L78"
    /\ LET f == Top
           n == Top.name
       IN  IF n \in DOMAIN running_processes
           THEN LET rp == [k \in DOMAIN running_processes \ {n} |->
                              running_processes[k]]
                IN  /\ running_processes' = rp
                    /\ Return(f, <<>>, rp, spawned)
           ELSE /\ UNCHANGED running_processes
                /\ LET g == [f EXCEPT !.exc = Some(KeyError(n))]
                   IN  IF Caught(KeyError(n))
                       THEN Continue([g EXCEPT !.pc = "L82"],
                                     <<EmitException(n, KeyError(n))>>)
                       ELSE Propagate(g)
    /\ UNCHANGED <<jobs, spawned, app>>

\* line 82: sync_finished(name, False) in the except clause, then the call
\* returns
ExceptFinished ==
    /\ stack # <<>>
    /\ Top.pc = "L82"
    /\ Return(Top, <<EmitExceptionFinished(Top.name)>>, running_processes, spawned)
    /\ UNCHANGED <<jobs, running_processes, spawned, app>>

----------------------------------------------------------------------------
(* start_all_sync and RsyncTrayApp.sync_all: for name in self.jobs          *)

\* The entry table of the dict being iterated: a slot holds a key or, after
\* a del, nothing; a new key takes a new slot at the end
Layout(d) == [i \in 1..Len(d) |-> Some(d[i].name)]

LiveSlots(lay) == {i \in 1..Len(lay) : lay[i] # None}

\* the first key skipped
NewIteratorOffByOne(d) ==
    [layout   |-> Layout(d),
     pos      |-> 1,
     used     |-> Len(d),
     len      |-> Len(d),
     detached |-> FALSE]

\* iter(self.jobs): the iterator remembers the size of the dict
NewIterator(d) ==
    [layout   |-> Layout(d),
     pos      |-> 0,            \* slots already passed
     used     |-> Len(d),       \* the size the iterator expects
     len      |-> Len(d),       \* the keys it has still to give
     detached |-> FALSE]        \* self.jobs has been rebound to another dict

\* the loop goes on while the process of the previous job is still running
CalleeReturnedEarly == IF stack = <<>> THEN TRUE ELSE Top.pc = "L68"

\* The loop head runs when the start_sync call of the loop body has returned
CalleeReturned == stack = <<>>

BeginLoop(op) ==
    /\ Idle
    /\ loop' = Some(NewIterator(jobs))
    /\ Begin(op, "", Some([snapshot |-> jobs]), "running")
    /\ UNCHANGED <<jobs, running_processes, stack, app>>

\* sync_manager.py lines 84-86
start_all_sync == BeginLoop("start_all_sync")

\* main.py lines 79-82: get_jobs() hands out self.jobs itself
sync_all == BeginLoop("sync_all")

\* next() on the iterator, then the loop body or the end of the loop
LoopNext ==
    /\ loop # None
    /\ CalleeReturned
    /\ LET it   == loop[1]
           rest == {i \in LiveSlots(it.layout) : i > it.pos}
       IN  IF Cardinality(LiveSlots(it.layout)) # it.used
           THEN \* RuntimeError: dictionary changed size during iteration
                /\ loop' = None
                /\ lastOp' = [lastOp EXCEPT !.result = "raised"]
                /\ UNCHANGED stack
           ELSE IF rest = {}
           THEN \* StopIteration: the loop ends and the call returns
                /\ loop' = None
                /\ lastOp' = [lastOp EXCEPT !.result = "returned"]
                /\ UNCHANGED stack
           ELSE IF it.len = 0
           THEN \* RuntimeError: dictionary keys changed during iteration
                /\ loop' = None
                /\ lastOp' = [lastOp EXCEPT !.result = "raised"]
                /\ UNCHANGED stack
           ELSE LET i == CHOOSE k \in rest : \A m \in rest : k <= m
                IN  /\ loop' = Some([it EXCEPT !.pos = i, !.len = it.len - 1])
                    /\ stack' = Append(stack, NewFrame(it.layout[i][1], spawned))
                    /\ UNCHANGED lastOp
    /\ UNCHANGED <<jobs, running_processes, events, spawned, returned, app>>

----------------------------------------------------------------------------
(* Slots connected to sync_started, sync_finished and sync_error: a slot    *)
(* runs inside the emit, while the loop and the run are in progress, and    *)
(* may call the registry                                                    *)

\* The slot makes one call to the registry
InSlot ==
    /\ loop # None
    /\ stack # <<>>
    /\ Top.emitted # <<>>
    /\ jobs = Top.entry.jobs

\* The entry table after d[n] = v on the dict the loop iterates
LayoutSet(lay, n) ==
    IF \E i \in 1..Len(lay) : lay[i] = Some(n) THEN lay ELSE Append(lay, Some(n))

\* The entry table after del d[n]
LayoutDel(lay, n) == [i \in 1..Len(lay) |-> IF lay[i] = Some(n) THEN None ELSE lay[i]]

\* The loop's iterator after a change of self.jobs: a dict that clear_jobs
\* has replaced is out of the registry's reach
Touch(lay) ==
    IF loop[1].detached THEN loop ELSE Some([loop[1] EXCEPT !.layout = lay])

SlotAddJob ==
    /\ InSlot
    /\ \E name \in JobNames :
          /\ loop[1].detached \/ Len(LayoutSet(loop[1].layout, name)) <= MaxSlots
          /\ jobs' = DictSet(jobs, name,
                [name       |-> name,
                 source_dir |-> "/test/source1",
                 dest_dir   |-> "/test/dest1",
                 options    |-> DefaultOptions,
                 auto_sync  |-> FALSE,
                 interval   |-> 60])
          /\ loop' = Touch(LayoutSet(loop[1].layout, name))
    /\ UNCHANGED <<running_processes, stack, events, spawned, returned,
                   lastOp, app>>

SlotRemoveJob ==
    /\ InSlot
    /\ \E name \in Keys(jobs) :
          /\ jobs' = DictDel(jobs, name)
          /\ loop' = Touch(LayoutDel(loop[1].layout, name))
    /\ UNCHANGED <<running_processes, stack, events, spawned, returned,
                   lastOp, app>>

SlotClearJobs ==
    /\ InSlot
    /\ jobs' = <<>>
    /\ loop' = Some([loop[1] EXCEPT !.detached = TRUE])
    /\ UNCHANGED <<running_processes, stack, events, spawned, returned,
                   lastOp, app>>

\* A slot connected to sync_started calls start_sync: the call runs to its
\* end inside the emit of line 65, before the caller waits for its process.
\* The slot makes the call once: no call has returned yet
SlotStartSync ==
    /\ stack # <<>>
    /\ Len(stack) < MaxDepth
    /\ Top.pc = "L68"
    /\ returned = <<>>
    /\ \E name \in JobNames :
          stack' = Append(stack, NewFrame(name, spawned))
    /\ UNCHANGED <<jobs, running_processes, events, spawned, returned, loop,
                   lastOp, app>>

----------------------------------------------------------------------------
(* RsyncTrayApp.setup_timers and the timers it starts                      *)

\* auto_sync alone, the interval not tested
NeedsTimerAnyInterval(job) == job.auto_sync

\* main.py line 121
NeedsTimer(job) == job.auto_sync /\ job.interval > 0

\* main.py line 125: minutes to milliseconds
TimerPeriod(job) == job.interval * 60 * 1000

\* lambda: start_sync(job_name), which sees the last job_name of the loop
NewTimersLateBinding(d) ==
    LET auto == SelectSeq(d, NeedsTimer)
    IN  [i \in 1..Len(auto) |->
            [name |-> d[Len(d)].name, period |-> TimerPeriod(auto[i])]]

\* main.py lines 120-126: one started timer per auto-sync job, in registry
\* order; lambda name=job_name binds the name when the timer is created
NewTimers(d) ==
    LET auto == SelectSeq(d, NeedsTimer)
    IN  [i \in 1..Len(auto) |->
            [name |-> auto[i].name, period |-> TimerPeriod(auto[i])]]

\* the old timers are dropped from the list but not stopped
StillRunningAll(ts) == {ts[i] : i \in 1..Len(ts)}

\* main.py lines 114-115: the timers of ts still running after the loop has
\* called stop() on each of them
StillRunning(ts) == {}

\* timer.start(msec) arms the timer at once: it is due now
QTimerStartAtOnce(now, msec) == now

\* main.py line 125, timer.start(msec) on a new QTimer: the timer is due
\* msec after the call
QTimerStart(now, msec) == now + msec

\* main.py lines 117-126 at the time cl.now: app._timers is a new list of new
\* timers, each started when it is made; nothing of the old timers is kept
Armed(cl, ts) ==
    [now   |-> cl.now,
     armed |-> cl.now,
     due   |-> [i \in 1..Len(ts) |-> QTimerStart(cl.now, ts[i].period)]]

\* main.py lines 112-126
setup_timers ==
    /\ Idle
    /\ stale' = stale \cup StillRunning(timers)
    /\ timers' = NewTimers(jobs)
    /\ clock' = Armed(clock, NewTimers(jobs))
    /\ Begin("setup_timers", "", Some([stopped |-> Len(timers)]), "returned")
    /\ UNCHANGED <<jobs, running_processes, stack, loop, held, ui>>

\* A running timer times out: the event loop calls its slot, which calls
\* start_sync with the name bound to the timer
TimerFire ==
    /\ Idle
    /\ \E t \in {timers[i] : i \in 1..Len(timers)} \cup stale :
          /\ stack' = <<NewFrame(t.name, <<>>)>>
          /\ Begin("timer", t.name, Some(t), "running")
    /\ UNCHANGED <<jobs, running_processes, loop, app>>

----------------------------------------------------------------------------
(* The configuration file and RsyncTrayApp.load_config                      *)

\* An element of the "sync_jobs" list: a JSON object, a key it lacks being
\* None here, or a value of another JSON type
Object(name, source_dir, dest_dir, options, auto_sync, interval) ==
    [type |-> "object", name |-> name, source_dir |-> source_dir,
     dest_dir |-> dest_dir, options |-> options, auto_sync |-> auto_sync,
     interval |-> interval]

NotAnObject == [type |-> "string"]

\* What the file can be: absent, not JSON, JSON whose top level is not an
\* object, or an object with the list "sync_jobs"
Missing == [kind |-> "missing"]

NotJson == [kind |-> "malformed"]

TopLevelArray == [kind |-> "array"]

Document(entries) == [kind |-> "doc", jobs |-> entries]

\* dict.get(key, default)
GetOr(value, default) == IF value = None THEN default ELSE value[1]

\* main.py lines 101-108: the arguments add_job gets for an entry
EntryName(e) == GetOr(e.name, "")

\* main.py lines 101-108 with sync_manager.py lines 16-27: the record the
\* registry gets for an entry
EntryJob(e) ==
    [name       |-> EntryName(e),
     source_dir |-> GetOr(e.source_dir, ""),
     dest_dir   |-> GetOr(e.dest_dir, ""),
     options    |-> StoredOptions(Some(GetOr(e.options, <<>>))),
     auto_sync  |-> GetOr(e.auto_sync, FALSE),
     interval   |-> GetOr(e.interval, 60)]

\* main.py lines 100-108: the loop over the entries, begun on registry d;
\* job.get on an entry that is not an object raises, which ends the loop
\* with the jobs added so far
RECURSIVE AddEntries(_, _)
AddEntries(d, entries) ==
    IF entries = <<>> THEN d
    ELSE IF Head(entries).type # "object" THEN d
    ELSE AddEntries(DictSet(d, EntryName(Head(entries)), EntryJob(Head(entries))),
                    Tail(entries))

\* main.py lines 93-98: clear_jobs is reached when makedirs and json.load
\* have not raised and the file is there
Cleans(cfg, dirOk) == dirOk /\ cfg.kind \in {"array", "doc"}

\* the jobs of the file are added to the jobs the registry has
LoadConfigKeepsJobs(d, cfg, dirOk) ==
    IF ~ Cleans(cfg, dirOk) THEN d
    ELSE IF cfg.kind = "array" THEN <<>>
    ELSE AddEntries(d, cfg.jobs)

\* main.py lines 88-110: the registry after load_config; every exception is
\* caught and printed
LoadConfig(d, cfg, dirOk) ==
    IF ~ Cleans(cfg, dirOk) THEN d
    ELSE IF cfg.kind = "array" THEN <<>>
    ELSE AddEntries(<<>>, cfg.jobs)

load_config ==
    /\ Idle
    /\ dialog = None
    /\ \E dirOk \in BOOLEAN :
          /\ jobs' = LoadConfig(jobs, config, dirOk)
          /\ held' = IF Cleans(config, dirOk) THEN HeldAfterClear ELSE held
          /\ Begin("load_config", "", Some([dirOk |-> dirOk]), "returned")
    /\ UNCHANGED <<running_processes, stack, loop, timers, stale, ui, clock>>

----------------------------------------------------------------------------

AddJob ==
    \E name \in JobNames, source_dir \in SourceDirs, dest_dir \in DestDirs,
       options \in {None} \cup {Some(o) : o \in OptionSeqs},
       auto_sync \in AutoSyncs, interval \in Intervals :
        add_job(name, source_dir, dest_dir, options, auto_sync, interval)

RemoveJob == \E name \in JobNames : remove_job(name)

RunOne == \E name \in JobNames : CallStartSync(name)

Next ==
    \/ AddJob
    \/ RemoveJob
    \/ clear_jobs
    \/ RunOne
    \/ CheckJob
    \/ Launch
    \/ MarkStarted
    \/ Communicate
    \/ FinishFailed
    \/ CleanUp
    \/ ExceptFinished

Spec == Init /\ [][Next]_vars

----------------------------------------------------------------------------
(* The runs of all jobs: the registry holds jobs added with the default     *)
(* options, and every job is run by start_sync, start_all_sync or sync_all  *)

AddJobDefault ==
    \E name \in JobNames, source_dir \in SourceDirs, dest_dir \in DestDirs :
        add_job(name, source_dir, dest_dir, None, FALSE, 60)

NextAll ==
    \/ AddJobDefault
    \/ RemoveJob
    \/ clear_jobs
    \/ RunOne
    \/ start_all_sync
    \/ sync_all
    \/ LoopNext
    \/ CheckJob
    \/ Launch
    \/ MarkStarted
    \/ Communicate
    \/ FinishFailed
    \/ CleanUp
    \/ ExceptFinished

SpecAll == Init /\ [][NextAll]_vars

----------------------------------------------------------------------------
(* The scheduler: jobs differ in auto_sync and interval, the application    *)
(* reconfigures its timers, timers fire and sync_all runs every job         *)

SchedIntervals == {0, 30}

AddJobSched ==
    \E name \in JobNames, auto_sync \in BOOLEAN, interval \in SchedIntervals :
        add_job(name, "/test/source", "/test/dest", None, auto_sync, interval)

NextSched ==
    \/ AddJobSched
    \/ RemoveJob
    \/ clear_jobs
    \/ setup_timers
    \/ TimerFire
    \/ sync_all
    \/ LoopNext
    \/ CheckJob
    \/ Launch
    \/ MarkStarted
    \/ Communicate
    \/ FinishFailed
    \/ CleanUp
    \/ ExceptFinished

SpecSched == Init /\ [][NextSched]_vars

----------------------------------------------------------------------------
(* The registry alone, with records that differ in every field              *)

RegistryDests == {"/test/dest", "/test/dest1"}

RegistryOptions ==
    {None, Some(<<>>), Some(<<"-avz">>), Some(<<"-avzP", "--exclude=*.tmp">>)}

RegistryIntervals == {15, 30}

AddJobAny ==
    \E name \in JobNames, source_dir \in SourceDirs,
       dest_dir \in RegistryDests, options \in RegistryOptions,
       auto_sync \in BOOLEAN, interval \in RegistryIntervals :
        add_job(name, source_dir, dest_dir, options, auto_sync, interval)

\* A call with the three required arguments only
AddJobOmitting ==
    \E name \in JobNames, source_dir \in SourceDirs, dest_dir \in RegistryDests :
        add_job(name, source_dir, dest_dir, None, DefaultAutoSync,
                DefaultInterval)

NextRegistry ==
    \/ AddJobAny
    \/ AddJobOmitting
    \/ RemoveJob
    \/ clear_jobs

SpecRegistry == Init /\ [][NextRegistry]_vars

----------------------------------------------------------------------------
(* The registry and a caller that holds the mapping get_jobs returned       *)

NextAlias ==
    \/ AddJobDefault
    \/ RemoveJob
    \/ clear_jobs
    \/ get_jobs
    \/ HolderDel

SpecAlias == Init /\ [][NextAlias]_vars

----------------------------------------------------------------------------
(* start_all_sync and sync_all with slots that change the registry          *)

AddJobPlain ==
    \E name \in JobNames :
        add_job(name, "/test/source1", "/test/dest1", None, FALSE, 60)

NextReentrant ==
    \/ AddJobPlain
    \/ RemoveJob
    \/ start_all_sync
    \/ LoopNext
    \/ SlotAddJob
    \/ SlotRemoveJob
    \/ SlotClearJobs
    \/ CheckJob
    \/ Launch
    \/ MarkStarted
    \/ Communicate
    \/ FinishFailed
    \/ CleanUp
    \/ ExceptFinished

SpecReentrant == Init /\ [][NextReentrant]_vars

----------------------------------------------------------------------------
(* start_sync called from a slot while a start_sync call is in progress     *)

NextNested ==
    \/ AddJobPlain
    \/ RemoveJob
    \/ RunOne
    \/ SlotStartSync
    \/ CheckJob
    \/ Launch
    \/ MarkStarted
    \/ Communicate
    \/ FinishFailed
    \/ CleanUp
    \/ ExceptFinished

SpecNested == Init /\ [][NextNested]_vars

----------------------------------------------------------------------------
(* The timers against the clock                                             *)

MaxTicks == 4

\* one minute in ms, the unit of a job's interval
TickMs == 60 * 1000

ClockIntervals == {1, 2}

AddJobClock ==
    \E name \in JobNames, interval \in ClockIntervals :
        add_job(name, "/test/source", "/test/dest", None, TRUE, interval)

\* A minute passes. The event loop, when it is free, calls the slot of a
\* timer that is due before it waits any longer; during a call time passes
\* while communicate() waits for the process
Tick ==
    /\ clock.now < MaxTicks * TickMs
    /\ IF Idle THEN \A i \in 1..Len(timers) : clock.due[i] > clock.now
               ELSE stack # <<>> /\ Top.pc = "L68"
    /\ clock' = [clock EXCEPT !.now = @ + TickMs]
    /\ UNCHANGED <<jobs, running_processes, stack, events, spawned, returned,
                   loop, lastOp, timers, stale, held, ui>>

\* A repeating QTimer that timed out is due again one period after the time
\* it was due, or one period from now when that has passed already
QTimerNext(due, msec, now) ==
    IF due + msec < now THEN now + msec ELSE due + msec

\* The timer i of app._timers is due and the event loop is free: its slot
\* calls start_sync with the name bound to it (main.py lines 123-124)
TimerTimeout ==
    /\ Idle
    /\ \E i \in 1..Len(timers) :
          /\ clock.due[i] <= clock.now
          /\ stack' = <<NewFrame(timers[i].name, <<>>)>>
          /\ Begin("timer", timers[i].name, Some(timers[i]), "running")
          /\ clock' = [clock EXCEPT
                          !.due[i] = QTimerNext(@, timers[i].period, clock.now)]
    /\ UNCHANGED <<jobs, running_processes, loop, timers, stale, held, ui>>

NextClock ==
    \/ AddJobClock
    \/ setup_timers
    \/ Tick
    \/ TimerTimeout
    \/ CheckJob
    \/ Launch
    \/ MarkStarted
    \/ Communicate
    \/ FinishFailed
    \/ CleanUp
    \/ ExceptFinished

SpecClock == Init /\ [][NextClock]_vars

----------------------------------------------------------------------------
(* The configuration file, load_config and the configuration dialog         *)

MaxDocLen == 2

ConfigEntries ==
    {Object(Some("job1"), Some("/test/source1"), Some("/test/dest1"),
            Some(<<"-avz">>), Some(TRUE), Some(30)),
     Object(Some("job2"), Some("/test/source2"), Some("/test/dest1"),
            Some(<<>>), Some(FALSE), Some(60)),
     Object(Some("job1"), None, None, None, None, None),
     NotAnObject}

ConfigFiles ==
    {Missing, NotJson, TopLevelArray}
        \cup {Document(es) : es \in UNION {[1..k -> ConfigEntries] : k \in 0..MaxDocLen}}

\* Something outside the program writes or deletes the file
FileChange ==
    /\ Idle
    /\ dialog = None
    /\ \E cfg \in ConfigFiles : config' = cfg
    /\ Begin("file", "", None, "returned")
    /\ UNCHANGED <<jobs, running_processes, stack, loop, timers, stale, held,
                   dialog, clock>>

\* The dialog of a show_config_dialog call: its working set self.jobs, an
\* ordered dict, the names its list widget shows, one per item, and where
\* the call is: in dialog.exec(), or after an accepted dialog at line 76 or
\* line 77 of main.py
DialogState(working, items) ==
    [jobs |-> working, items |-> items, pc |-> "exec"]

\* dialog.exec() is running: the dialog is on the screen
Executing == dialog # None /\ dialog[1].pc = "exec"

\* config_dialog.py lines 15 and 133-138: a copy of the registry, one item
\* per key
ConfigDialog == DialogState(jobs, NamesOf(jobs))

\* main.py line 74: the tray opens the dialog; the rest of
\* show_config_dialog runs when exec() returns
OpenDialog ==
    /\ Idle
    /\ dialog = None
    /\ dialog' = Some(ConfigDialog)
    /\ Begin("show_config_dialog", "", None, "running")
    /\ UNCHANGED <<jobs, running_processes, stack, loop, timers, stale, held,
                   config, clock>>

MaxItems == 2

\* config_dialog.py line 160
JobLabel(n) == "Job-" \o ToString(n)

\* config_dialog.py lines 161-168
BlankJob(name) ==
    [name       |-> name,
     source_dir |-> "",
     dest_dir   |-> "",
     options    |-> <<"-av", "--delete">>,
     auto_sync  |-> FALSE,
     interval   |-> 60]

\* config_dialog.py lines 159-173, the Add button
DialogAdd ==
    /\ Executing
    /\ Len(dialog[1].items) < MaxItems
    /\ LET name == JobLabel(Len(dialog[1].jobs) + 1)
       IN  /\ dialog' = Some(DialogState(
                              DictSet(dialog[1].jobs, name, BlankJob(name)),
                              Append(dialog[1].items, name)))
           /\ Begin("dialog_add", "", None, "returned")
    /\ UNCHANGED <<jobs, running_processes, stack, loop, timers, stale, held,
                   config, clock>>

RemoveAt(seq, i) == SubSeq(seq, 1, i - 1) \o SubSeq(seq, i + 1, Len(seq))

\* config_dialog.py lines 175-188, the Remove button on the item at row i;
\* `del` of a key the working set has not raises KeyError
DialogRemove ==
    /\ Executing
    /\ \E i \in 1..Len(dialog[1].items), yes \in BOOLEAN :
          LET name == dialog[1].items[i]
          IN  IF ~ yes
              THEN /\ dialog' = dialog
                   /\ Begin("dialog_remove", "", None, "declined")
              ELSE IF ~ Has(dialog[1].jobs, name)
              THEN /\ dialog' = dialog
                   /\ Begin("dialog_remove", "", None, "raised")
              ELSE /\ dialog' = Some(DialogState(
                                      DictDel(dialog[1].jobs, name),
                                      RemoveAt(dialog[1].items, i)))
                   /\ Begin("dialog_remove", "", None, "returned")
    /\ UNCHANGED <<jobs, running_processes, stack, loop, timers, stale, held,
                   config, clock>>

\* The text of the options field: words, and " " for a run of blanks
Blank == " "

\* str.split(): the words of the text
Split(text) == SelectSeq(text, LAMBDA w : w # Blank)

\* config_dialog.py lines 202-206: a text with no word gives the default
\* options
DialogOptions(text) ==
    IF Split(text) = <<>> THEN <<"-av", "--delete">> ELSE Split(text)

\* What the user has typed into the detail fields
FormNames == {"", "job1"}

FormDirs == {"", "/test/source1"}

FormOptionTexts == {<<Blank, "-a", Blank, "-z">>}

FormIntervals == {30}

\* config_dialog.py lines 190-231, the Save button on the item at row i
save_job(i, new_name, source_dir, dest_dir, options_text, auto_sync, interval) ==
    LET old_name == dialog[1].items[i]
        job == [name       |-> new_name,
                source_dir |-> source_dir,
                dest_dir   |-> dest_dir,
                options    |-> DialogOptions(options_text),
                auto_sync  |-> auto_sync,
                interval   |-> interval]
    IN  IF new_name = "" \/ source_dir = "" \/ dest_dir = ""
        THEN /\ dialog' = dialog
             /\ Begin("dialog_save", "", None, "refused")
        ELSE IF old_name # new_name /\ ~ Has(dialog[1].jobs, old_name)
        THEN /\ dialog' = dialog
             /\ Begin("dialog_save", "", None, "raised")
        ELSE /\ dialog' = Some(DialogState(
                      DictSet(IF old_name # new_name
                              THEN DictDel(dialog[1].jobs, old_name)
                              ELSE dialog[1].jobs, new_name, job),
                      [dialog[1].items EXCEPT ![i] = new_name]))
             /\ Begin("dialog_save", "", None, "returned")

\* the dialog works on the dict get_jobs() returned, not on a copy of it
DialogSaveOnRegistry ==
    /\ Executing
    /\ \E i \in 1..Len(dialog[1].items), new_name \in FormNames,
          source_dir \in FormDirs, dest_dir \in FormDirs,
          options_text \in FormOptionTexts, interval \in FormIntervals :
          save_job(i, new_name, source_dir, dest_dir, options_text, TRUE,
                   interval)
    /\ jobs' = dialog'[1].jobs
    /\ UNCHANGED <<running_processes, stack, loop, timers, stale, held,
                   config, clock>>

DialogSave ==
    /\ Executing
    /\ \E i \in 1..Len(dialog[1].items), new_name \in FormNames,
          source_dir \in FormDirs, dest_dir \in FormDirs,
          options_text \in FormOptionTexts, interval \in FormIntervals :
          save_job(i, new_name, source_dir, dest_dir, options_text, TRUE,
                   interval)
    /\ UNCHANGED <<jobs, running_processes, stack, loop, timers, stale, held,
                   config, clock>>

\* show_config_dialog reloads the file whatever exec() returns
DialogRejectReloads ==
    /\ Executing
    /\ dialog' = None
    /\ jobs' = LoadConfig(jobs, config, TRUE)
    /\ Begin("reject", "", None, "returned")
    /\ UNCHANGED <<running_processes, stack, loop, timers, stale, held,
                   config, clock>>

\* Cancel, or the window closed: exec() returns 0 and show_config_dialog
\* does nothing more
DialogReject ==
    /\ Executing
    /\ dialog' = None
    /\ Begin("reject", "", None, "returned")
    /\ UNCHANGED <<jobs, running_processes, stack, loop, timers, stale, held,
                   config, clock>>

\* the options of a job are not written
ToEntryNoOptions(j) ==
    Object(Some(j.name), Some(j.source_dir), Some(j.dest_dir), None,
           Some(j.auto_sync), Some(j.interval))

\* json.dump of one record of the working set: an object with its six keys
ToEntry(j) ==
    Object(Some(j.name), Some(j.source_dir), Some(j.dest_dir),
           Some(j.options), Some(j.auto_sync), Some(j.interval))

\* the jobs that lack a source or a destination directory are not written
SavedDocumentValidated(working) ==
    LET valid == SelectSeq(working,
                           LAMBDA j : j.source_dir # "" /\ j.dest_dir # "")
    IN  Document([i \in 1..Len(valid) |-> ToEntry(valid[i])])

\* config_dialog.py line 250: {'sync_jobs': list(self.jobs.values())}
SavedDocument(working) ==
    Document([i \in 1..Len(working) |-> ToEntry(working[i])])

\* config_dialog.py lines 235-244: clear_jobs, then add_job for each record
\* of the working set under the name in the record
RECURSIVE AddAll(_, _)
AddAll(d, working) ==
    IF working = <<>> THEN d
    ELSE AddAll(DictSet(d, Head(working).name,
                        [name       |-> Head(working).name,
                         source_dir |-> Head(working).source_dir,
                         dest_dir   |-> Head(working).dest_dir,
                         options    |-> StoredOptions(Some(Head(working).options)),
                         auto_sync  |-> Head(working).auto_sync,
                         interval   |-> Head(working).interval]),
                Tail(working))

\* config_dialog.py lines 233-254, the OK button: accept() fills the
\* registry from the working set and writes the file, which can fail
\* (makedirs, or open for writing), and closes the dialog as accepted
DialogAccept ==
    /\ Executing
    /\ \E dirOk \in BOOLEAN, writeOk \in BOOLEAN :
          LET working == dialog[1].jobs
              written == dirOk /\ writeOk
          IN  /\ config' = IF written THEN SavedDocument(working) ELSE config
              /\ jobs' = AddAll(<<>>, working)
              /\ Begin("accept", "",
                       Some([written |-> written, dirOk |-> dirOk,
                             edited |-> working # jobs]),
                       "returned")
    /\ dialog' = Some([dialog[1] EXCEPT !.pc = "L76"])
    /\ held' = HeldAfterClear
    /\ UNCHANGED <<running_processes, stack, loop, timers, stale, clock>>

\* main.py line 76: show_config_dialog calls load_config after an accepted
\* dialog; makedirs fares as it did in accept
AcceptedLoadConfig ==
    /\ dialog # None
    /\ dialog[1].pc = "L76"
    /\ LET dirOk == lastOp.args[1].dirOk
       IN  /\ jobs' = LoadConfig(jobs, config, dirOk)
           /\ held' = IF Cleans(config, dirOk) THEN HeldAfterClear ELSE held
           /\ Begin("load_config", "", Some([dirOk |-> dirOk]), "returned")
    /\ dialog' = Some([dialog[1] EXCEPT !.pc = "L77"])
    /\ UNCHANGED <<running_processes, stack, loop, timers, stale, config,
                   clock>>

\* main.py line 77: then it calls setup_timers and returns
AcceptedSetupTimers ==
    /\ dialog # None
    /\ dialog[1].pc = "L77"
    /\ stale' = stale \cup StillRunning(timers)
    /\ timers' = NewTimers(jobs)
    /\ clock' = Armed(clock, NewTimers(jobs))
    /\ Begin("setup_timers", "", Some([stopped |-> Len(timers)]), "returned")
    /\ dialog' = None
    /\ UNCHANGED <<jobs, running_processes, stack, loop, held, config>>

\* The file, loads of it, and a dialog that is opened and closed with its
\* working set as it was
NextConfig ==
    \/ FileChange
    \/ load_config
    \/ OpenDialog
    \/ DialogReject
    \/ DialogAccept
    \/ AcceptedLoadConfig
    \/ AcceptedSetupTimers

SpecConfig == Init /\ [][NextConfig]_vars

\* The dialog with its buttons, on the file the program itself has written
NextDialog ==
    \/ load_config
    \/ OpenDialog
    \/ DialogAdd
    \/ DialogRemove
    \/ DialogSave
    \/ DialogReject
    \/ DialogAccept
    \/ AcceptedLoadConfig
    \/ AcceptedSetupTimers

SpecDialog == Init /\ [][NextDialog]_vars

----------------------------------------------------------------------------
(* Progress: a call that has begun takes its next step, and the process a   *)
(* call waits for exits (communicate comes back).  Nothing obliges a caller *)
(* to begin a call.                                                         *)

NextLive ==
    \/ AddJobPlain
    \/ RemoveJob
    \/ RunOne
    \/ start_all_sync
    \/ LoopNext
    \/ CheckJob
    \/ Launch
    \/ MarkStarted
    \/ Communicate
    \/ FinishFailed
    \/ CleanUp
    \/ ExceptFinished

SpecLive ==
    /\ Init
    /\ [][NextLive]_vars
    /\ WF_vars(LoopNext)
    /\ WF_vars(CheckJob)
    /\ WF_vars(Launch)
    /\ WF_vars(MarkStarted)
    /\ WF_vars(Communicate)
    /\ WF_vars(FinishFailed)
    /\ WF_vars(CleanUp)
    /\ WF_vars(ExceptFinished)

----------------------------------------------------------------------------
(* Properties                                                              *)

Completed == {returned[i] : i \in 1..Len(returned)}

InProgress == {stack[i] : i \in 1..Len(stack)}

CallRecords == Completed \cup InProgress

Positions(evs, kind) == {i \in 1..Len(evs) : evs[i].kind = kind}

Count(evs, kind) == Cardinality(Positions(evs, kind))

RegisteredAtEntry(r) == Has(r.entry.jobs, r.name)

SourceExisted(r) == r.srcExists = Some(TRUE)

\* C1: every start_sync call on a registered job whose source exists emits
\* exactly one Started and exactly one Finished for that job, whether the
\* process exits with zero, with non-zero, or cannot be launched
C1_OneStartedOneFinished ==
    \A r \in Completed :
        (RegisteredAtEntry(r) /\ SourceExisted(r)) =>
            /\ Count(r.emitted, "Started") = 1
            /\ Count(r.emitted, "Finished") = 1
            /\ \A i \in 1..Len(r.emitted) : r.emitted[i].job = r.name

\* C2: a call whose process was launched and exited with status 0 emitted
\* exactly the sequence Started, Finished(true)
C2_SuccessSequence ==
    \A r \in Completed :
        (r.launch = "ok" /\ r.rc = Some(0)) =>
            r.emitted = <<Started(r.name), Finished(r.name, TRUE)>>

C2_Witness ==
    \E r \in Completed :
        /\ r.launch = "ok"
        /\ r.rc = Some(0)
        /\ RegisteredAtEntry(r)
        /\ SourceExisted(r)

\* C3: a call whose process was launched and exited with a non-zero status
\* emitted exactly Started, Error(captured standard error), Finished(false)
C3_FailureSequence ==
    \A r \in Completed :
        (r.launch = "ok" /\ Len(r.rc) = 1 /\ r.rc # Some(0)) =>
            r.emitted = <<Started(r.name), Error(r.name, r.stderr),
                          Finished(r.name, FALSE)>>

C3_Witness ==
    \E r \in Completed :
        /\ r.launch = "ok"
        /\ r.rc = Some(13)
        /\ r.stdout # ""
        /\ r.stderr # ""
        /\ r.stdout # r.stderr

\* C4: a call whose process could not be launched emitted exactly one Error
\* carrying the text of the launch exception and then exactly one
\* Finished(false)
C4_LaunchFailure ==
    \A r \in Completed :
        r.launch = "failed" =>
            SelectSeq(r.emitted, LAMBDA e : e.kind \in {"Error", "Finished"})
                = <<Error(r.name, r.exc[1].text), Finished(r.name, FALSE)>>

C4_Witness ==
    \E r \in Completed :
        /\ r.launch = "failed"
        /\ RegisteredAtEntry(r)
        /\ SourceExisted(r)
        /\ r.exc[1].text # ""

\* C5: in the events of one call, every Finished(false) has exactly one
\* Error before it, no Error comes after a Finished, and a Finished(true)
\* comes with no Error at all
C5_ErrorBeforeFinished ==
    \A r \in CallRecords :
        LET evs == r.emitted
            errs == Positions(evs, "Error")
            fins == Positions(evs, "Finished")
        IN  /\ \A i \in fins :
                  ~ evs[i].success =>
                      Cardinality({j \in errs : j < i /\ evs[j].job = r.name}) = 1
            /\ \A i \in fins : \A j \in errs : j < i
            /\ (\E i \in fins : evs[i].success) => errs = {}

C5_Witness ==
    \E r \in Completed :
        /\ r.launch = "ok"
        /\ Count(r.emitted, "Error") = 1
        /\ \E i \in Positions(r.emitted, "Finished") : ~ r.emitted[i].success

\* C6: a call for a name that is not in the registry emits the single event
\* Error(name, "Sync job not found"), launches nothing and leaves the
\* registry and the running-process markers as they were
C6_JobNotFound ==
    \A r \in Completed :
        ~ RegisteredAtEntry(r) =>
            /\ r.pc = "returned"
            /\ r.emitted = <<Error(r.name, "Sync job not found")>>
            /\ r.exit[1].spawned = r.entry.spawned
            /\ r.exit[1].jobs = r.entry.jobs
            /\ r.exit[1].running = r.entry.running

C6_Witness ==
    \E r \in Completed :
        /\ ~ RegisteredAtEntry(r)
        /\ r.entry.jobs # <<>>
        /\ DOMAIN r.entry.running # {}

\* C7: a call for a registered job whose source path does not exist emits
\* the single event Error(name, "Source directory does not exist: <source>")
\* and launches nothing
C7_SourceMissing ==
    \A r \in Completed :
        (RegisteredAtEntry(r) /\ r.srcExists = Some(FALSE)) =>
            /\ r.emitted =
                  <<Error(r.name, "Source directory does not exist: "
                                     \o Get(r.entry.jobs, r.name).source_dir)>>
            /\ r.exit[1].spawned = r.entry.spawned
            /\ r.launch = "none"

C7_Witness ==
    \E r \in Completed :
        /\ RegisteredAtEntry(r)
        /\ r.srcExists = Some(FALSE)
        /\ Get(r.entry.jobs, r.name).source_dir
              # Get(r.entry.jobs, r.name).dest_dir

\* C8: start_sync returns normally on every path: job not found, source
\* missing, launch failure, non-zero exit, failure while waiting
C8_ReturnsNormally ==
    \A r \in Completed : r.pc = "returned"

C8_Witness ==
    \E r \in Completed :
        /\ r.launch = "ok"
        /\ Len(r.exc) = 1
        /\ r.pc = "returned"

\* C9: when a start_sync call returns the marker of its job is cleared, so
\* no marker is left when no call is in progress
C9_MarkerCleared ==
    /\ \A r \in Completed : r.name \notin DOMAIN r.exit[1].running
    /\ Idle => DOMAIN running_processes = {}

\* C10: the launched command is "rsync", then the options of the job in
\* their stored order, then the source path, then the destination path
C10_CommandLine ==
    \A r \in CallRecords :
        r.launch = "ok" =>
            LET j == Get(r.entry.jobs, r.name)
                c == spawned[r.entry.spawned + 1].cmd
                k == Len(j.options)
            IN  /\ Len(c) = k + 3
                /\ c[1] = "rsync"
                /\ \A i \in 1..k : c[i + 1] = j.options[i]
                /\ c[k + 2] = j.source_dir
                /\ c[k + 3] = j.dest_dir

C10_Witness ==
    \E r \in Completed :
        /\ r.launch = "ok"
        /\ Get(r.entry.jobs, r.name).options = <<"--delete", "-av">>

----------------------------------------------------------------------------
(* start_all_sync and sync_all                                             *)

RunAllOps == {"start_all_sync", "sync_all"}

RunAllReturned == lastOp.op \in RunAllOps /\ lastOp.result = "returned"

JobsOf(evs) == [i \in 1..Len(evs) |-> evs[i].job]

OfKind(evs, kind) == SelectSeq(evs, LAMBDA e : e.kind = kind)

RECURSIVE Flatten(_)
Flatten(seqs) ==
    IF seqs = <<>> THEN <<>> ELSE Head(seqs) \o Flatten(Tail(seqs))

EmittedOf(recs) == Flatten([i \in 1..Len(recs) |-> recs[i].emitted])

C12_NoInterleaving ==
    lastOp.op \in RunAllOps =>
        /\ Len(stack) <= 1
        /\ events = EmittedOf(returned \o stack)
        /\ LET launched == SelectSeq(returned \o stack,
                                     LAMBDA r : r.launch = "ok")
           IN  /\ Len(spawned) = Len(launched)
               /\ \A k \in 1..Len(launched) :
                      /\ launched[k].entry.spawned = k - 1
                      /\ spawned[k].job.name = launched[k].name

C12_Witness ==
    /\ RunAllReturned
    /\ Len(returned) = 2
    /\ returned[1].launch = "ok"
    /\ returned[2].launch = "ok"
    /\ Len(returned[1].emitted) = 3
    /\ Len(returned[2].emitted) = 2

\* C14: RunAll works on the registry as it was at the call: it calls Run for
\* the jobs registered then, in order and once each, and returns normally,
\* whatever a slot does to the registry during the runs
C14_RunAllOnSnapshot ==
    lastOp.op \in RunAllOps =>
        LET called == NamesOf(returned \o stack)
            snap   == NamesOf(lastOp.args[1].snapshot)
        IN  /\ lastOp.result # "raised"
            /\ Len(called) <= Len(snap)
            /\ called = SubSeq(snap, 1, Len(called))
            /\ lastOp.result = "returned" => called = snap

----------------------------------------------------------------------------
(* The marker and the launch                                                *)

MarkedAtEntry(r) == r.name \in DOMAIN r.entry.running

\* C25: a start_sync for a name whose marker is set goes on like any other:
\* once the source directory is found it launches a process of its own,
\* different from the marked one, then puts that process in the marker and
\* emits its own Started
C25_NoReentryGuard ==
    /\ [](\A r \in CallRecords :
             (MarkedAtEntry(r) /\ r.srcExists = Some(TRUE) /\ r.pc # "L52") =>
                 /\ r.launch # "none"
                 /\ r.launch = "ok" =>
                       /\ spawned[r.entry.spawned + 1].proc = r.proc
                       /\ spawned[r.entry.spawned + 1].job.name = r.name
                       /\ r.proc # r.entry.running[r.name]
                       /\ r.pc # "L64" =>
                             Count(r.emitted, "Started") = 1)
    /\ [][(stack # <<>> /\ Top.pc = "L64" /\ Len(stack') = Len(stack)) =>
             /\ running_processes'[Top.name] = Top.proc
             /\ events' = Append(events, Started(Top.name))]_vars

\* the same job runs twice, one call inside the other, and the inner call
\* has put its process over the marker of the outer one
C25_Witness ==
    /\ Len(stack) = 2
    /\ stack[1].name = stack[2].name
    /\ stack[1].pc = "L68"
    /\ stack[2].pc = "L68"
    /\ MarkedAtEntry(stack[2])
    /\ stack[2].entry.running[stack[2].name] = stack[1].proc
    /\ running_processes[stack[2].name] = stack[2].proc

\* the call returned[i] ran inside the call returned[k], for the same job,
\* after the outer call had set its marker, and both waited for their
\* processes
Reentered(i, k) ==
    /\ i < k
    /\ returned[i].name = returned[k].name
    /\ returned[i].launch = "ok"
    /\ returned[k].launch = "ok"
    /\ MarkedAtEntry(returned[i])
    /\ returned[i].entry.running[returned[i].name] = returned[k].proc
    /\ returned[i].rc # None
    /\ returned[k].rc # None

\* C31: when start_sync is re-entered for the job of a call that is between
\* its Started and its clean-up, each of the two calls emits exactly one
\* Finished, the outer call emits no Error when its own process exited with
\* 0, and as many Finished as Started have been emitted
C31_ReentryOneFinishedEach ==
    \A i, k \in 1..Len(returned) :
        Reentered(i, k) =>
            /\ Count(returned[i].emitted, "Finished") = 1
            /\ Count(returned[k].emitted, "Finished") = 1
            /\ returned[k].rc = Some(0) => Count(returned[k].emitted, "Error") = 0
            /\ Count(events, "Finished") = Count(events, "Started")

\* C26: a process is launched only by a call that has set its marker and
\* emitted Started
C26_StartedBeforeLaunch ==
    \A r \in CallRecords :
        r.launch = "ok" =>
            /\ Count(r.emitted, "Started") = 1
            /\ r \in InProgress => r.name \in DOMAIN running_processes

\* communicate has come back, with a result or with an exception: the
\* process has exited
Waited(r) == r.rc # None \/ r.exc # None

\* C27: a call that has launched a process emits Finished and returns only
\* after the process has exited, and when every launched process exits
\* every start_sync and start_all_sync call returns
C27_BlocksUntilExit ==
    /\ [](\A r \in CallRecords :
             (r.launch = "ok" /\ ~ Waited(r)) =>
                 /\ Count(r.emitted, "Finished") = 0
                 /\ r \in InProgress
                 /\ lastOp.result = "running")
    /\ (lastOp.result = "running") ~> (lastOp.result = "returned")

C27_Witness ==
    /\ lastOp.op = "start_all_sync"
    /\ lastOp.result = "returned"
    /\ Len(returned) = 2
    /\ returned[1].rc = Some(1)
    /\ returned[2].rc = Some(0)
    /\ Count(events, "Finished") = 2

\* C28: sync_progress is never emitted: every event of every call, from a
\* caller, a timer or sync_all, is a Started, a Finished or an Error
C28_NoProgress ==
    /\ \A i \in 1..Len(events) :
          events[i].kind \in {"Started", "Finished", "Error"}
    /\ \A r \in CallRecords : \A i \in 1..Len(r.emitted) :
          r.emitted[i].kind # "Progress"

C28_Witness ==
    /\ lastOp.op = "timer"
    /\ lastOp.result = "returned"
    /\ Count(events, "Started") = 1
    /\ Count(events, "Error") = 1
    /\ Count(events, "Finished") = 1
    /\ Len(events) = 3

----------------------------------------------------------------------------
(* Timers                                                                   *)

ActiveTimers == {timers[i] : i \in 1..Len(timers)} \cup stale

ActiveCount(n) ==
    Cardinality({i \in 1..Len(timers) : timers[i].name = n})
        + Cardinality({t \in stale : t.name = n})

Failed(r) ==
    \/ r.srcExists = Some(FALSE)
    \/ r.launch = "failed"
    \/ (r.rc # None /\ r.rc # Some(0))

\* C13: a failed job aborts neither the other jobs nor the timers: a RunAll
\* never raises, it calls Run for the jobs of the registry in order, one
\* call each, whatever the outcome of the earlier calls, and no step of a
\* timer-triggered run changes the timers
C13_FailureDoesNotAbort ==
    /\ [](lastOp.op \in RunAllOps =>
            /\ lastOp.result # "raised"
            /\ Len(returned \o stack) <= Len(jobs)
            /\ NamesOf(returned \o stack)
                  = SubSeq(NamesOf(jobs), 1, Len(returned \o stack))
            /\ lastOp.result = "returned" =>
                  NamesOf(returned) = NamesOf(jobs))
    /\ [][lastOp'.op = "timer" => UNCHANGED <<timers, stale>>]_vars

C13_Witness ==
    /\ RunAllReturned
    /\ Len(returned) = 2
    /\ Failed(returned[1])
    /\ returned[1].launch = "failed"
    /\ returned[2].launch = "ok"
    /\ timers # <<>>

\* the event loop has just called the slot of a timer
TimedOut == stack = <<>> /\ stack' # <<>> /\ lastOp'.op = "timer"

\* setup_timers has just run: a step that is not the passing of time
Reconfigured == lastOp'.op = "setup_timers" /\ clock'.now = clock.now

TimersMatch(d) ==
    /\ \A t \in ActiveTimers : Has(d, t.name)
    /\ \A i \in 1..Len(d) :
          IF d[i].auto_sync /\ d[i].interval > 0
          THEN /\ ActiveCount(d[i].name) = 1
               /\ \A t \in ActiveTimers :
                      t.name = d[i].name => t.period = d[i].interval * 60000
          ELSE ActiveCount(d[i].name) = 0

C16_OneTimerPerAutoJob ==
    /\ lastOp.op = "setup_timers" =>
          /\ Len(timers) = Len(SelectSeq(jobs,
                 LAMBDA j : j.auto_sync /\ j.interval > 0))
          /\ \A i \in 1..Len(jobs) :
                LET own == {t \in ActiveTimers : t.name = jobs[i].name}
                IN  IF jobs[i].auto_sync /\ jobs[i].interval > 0
                    THEN own = {[name   |-> jobs[i].name,
                                 period |-> jobs[i].interval * 60000]}
                    ELSE own = {}
    /\ lastOp.op = "timer" =>
          /\ lastOp.args[1].name = lastOp.name
          /\ Len(returned \o stack) = 1
          /\ \A r \in CallRecords : r.name = lastOp.name

C16_Witness ==
    /\ lastOp.op = "setup_timers"
    /\ Len(jobs) = 2
    /\ Len(timers) = 1
    /\ timers[1].name = jobs[1].name
    /\ timers[1].period = 1800000
    /\ jobs[2].auto_sync
    /\ jobs[2].interval = 0

\* C17: no timer that setup_timers has dropped from its list is still
\* running, and no job name has two running timers
C17_NoOldTimers ==
    /\ stale = {}
    /\ \A n \in JobNames : ActiveCount(n) <= 1

C17_Witness ==
    /\ lastOp.op = "setup_timers"
    /\ lastOp.args[1].stopped = 2
    /\ Len(timers) = 1

----------------------------------------------------------------------------
(* The registry                                                             *)

Fields == {"name", "source_dir", "dest_dir", "options", "auto_sync", "interval"}

\* the entries of d other than n are in e, unchanged and in the same order
OthersUnchanged(d, e, n) ==
    SelectSeq(e, LAMBDA j : j.name # n) = SelectSeq(d, LAMBDA j : j.name # n)

\* C18: the mapping get_jobs returned is a copy: it keeps the entries it had
\* when it was returned whatever add_job, remove_job and clear_jobs do to
\* the registry afterwards, and a caller that deletes an entry of it leaves
\* the registry unchanged
C18_GetJobsReturnsCopy ==
    /\ [](held # None => HeldValue = held[1].asReturned)
    /\ [][lastOp'.op = "holder_del" => jobs' = jobs]_vars

\* C21: clear_jobs leaves an empty registry, emits nothing and leaves the
\* markers as they are; a start_sync on an empty registry, whatever the name
\* and whatever was registered before, reports "Sync job not found"
C21_ClearEmpties ==
    /\ [][lastOp'.op = "clear_jobs" =>
             /\ jobs' = <<>>
             /\ events' = <<>>
             /\ running_processes' = running_processes
             /\ lastOp'.result = "returned"]_vars
    /\ [](\A r \in Completed :
             r.entry.jobs = <<>> =>
                 r.emitted = <<Error(r.name, "Sync job not found")>>)

\* clear_jobs has emptied a registry while a marker was set: the marker is
\* still there
C21_Witness ==
    /\ lastOp.op = "clear_jobs"
    /\ jobs = <<>>
    /\ DOMAIN running_processes # {}

\* C29: add_job stores the options it is given as they are, an empty list
\* too; it stores <<"-av", "--delete">> only when it is given none, and a
\* call with the required arguments only stores auto_sync false and
\* interval 60
C29_OptionsAndDefaults ==
    /\ [](lastOp.op = "add_job" =>
            LET a == lastOp.args[1]
                j == Get(jobs, lastOp.name)
            IN  /\ a.options # None => j.options = a.options[1]
                /\ a.options = None => j.options = <<"-av", "--delete">>)
    /\ [][(/\ lastOp'.op = "add_job"
            /\ lastOp'.args[1].options = None
            /\ add_job(lastOp'.name, lastOp'.args[1].source_dir,
                       lastOp'.args[1].dest_dir, None, DefaultAutoSync,
                       DefaultInterval)) =>
             /\ Get(jobs', lastOp'.name).options = <<"-av", "--delete">>
             /\ Get(jobs', lastOp'.name).auto_sync = FALSE
             /\ Get(jobs', lastOp'.name).interval = 60]_vars

C29_Witness ==
    /\ Len(jobs) = 2
    /\ lastOp.op = "add_job"
    /\ lastOp.name = jobs[2].name
    /\ lastOp.args[1].options = None
    /\ jobs[2].interval = 60
    /\ jobs[1].options = <<"-avzP", "--exclude=*.tmp">>

\* not JSON, not an object at the top, or a job that is not an object
Malformed(cfg) ==
    \/ cfg.kind \in {"malformed", "array"}
    \/ cfg.kind = "doc" /\ \E i \in 1..Len(cfg.jobs) : cfg.jobs[i].type # "object"

\* C23: load_config of a missing or malformed file leaves an empty registry,
\* whatever it held, adds no job and raises nothing
C23_BadFileGivesEmpty ==
    [][(lastOp'.op = "load_config" /\ (config = Missing \/ Malformed(config))) =>
          /\ jobs' = <<>>
          /\ lastOp'.result = "returned"]_vars

\* the document is a list of job objects with the six fields and distinct
\* names
WellFormed(cfg) ==
    /\ cfg.kind = "doc"
    /\ \A i \in 1..Len(cfg.jobs) :
          /\ cfg.jobs[i].type = "object"
          /\ \A f \in Fields : cfg.jobs[i][f] # None
    /\ \A i, k \in 1..Len(cfg.jobs) :
          cfg.jobs[i].name = cfg.jobs[k].name => i = k

\* the jobs of d are the records of the document, field for field and in
\* the same order
HoldsDocument(d, cfg) ==
    /\ Len(d) = Len(cfg.jobs)
    /\ \A i \in 1..Len(d) :
          /\ DOMAIN d[i] = Fields
          /\ \A f \in Fields : cfg.jobs[i][f] = <<d[i][f]>>

\* C24: load_config of a well-formed document with distinct names leaves
\* the registry holding its records in order, and a dialog opened on such a
\* registry and accepted with its working set untouched writes a document
\* with the same job sequence
C24_RoundTrip ==
    /\ [][(/\ lastOp'.op = "load_config"
            /\ lastOp'.args[1].dirOk
            /\ WellFormed(config)) => HoldsDocument(jobs', config)]_vars
    /\ [][(/\ lastOp'.op = "accept"
            /\ lastOp'.args[1].written
            /\ ~ lastOp'.args[1].edited
            /\ WellFormed(config)
            /\ HoldsDocument(jobs, config)) =>
              /\ config'.kind = "doc"
              /\ config'.jobs = config.jobs]_vars

\* the dialog was accepted untouched on two jobs, the second with an empty
\* list of options, and the file written holds them
C24_Witness ==
    /\ lastOp.op = "accept"
    /\ lastOp.args[1].written
    /\ ~ lastOp.args[1].edited
    /\ WellFormed(config)
    /\ Len(config.jobs) = 2
    /\ config.jobs[1].name = Some("job2")
    /\ config.jobs[1].options = Some(<<>>)
    /\ config.jobs[2].options = Some(<<"-avz">>)
    /\ HoldsDocument(jobs, config)

\* the file is there, is a document, and every entry of its list is an
\* object
ListsJobRecords(cfg) ==
    /\ cfg.kind = "doc"
    /\ \A i \in 1..Len(cfg.jobs) : cfg.jobs[i].type = "object"

\* the name an entry goes under: '' when it has none
NameIn(e) == IF e.name = None THEN "" ELSE e.name[1]

\* C33: after a load that succeeded the registry holds one job per name of
\* the document, in the order the names first come in it, each with the
\* fields of the last record of that name, and no other job
C33_LoadReplacesRegistry ==
    [][(/\ lastOp'.op = "load_config"
        /\ lastOp'.args[1].dirOk
        /\ ListsJobRecords(config)) =>
          LET es    == config.jobs
              first == {i \in 1..Len(es) :
                           \A k \in 1..(i - 1) : NameIn(es[k]) # NameIn(es[i])}
              last  == {i \in 1..Len(es) :
                           \A k \in (i + 1)..Len(es) : NameIn(es[k]) # NameIn(es[i])}
          IN  /\ Len(jobs') = Cardinality(first)
              /\ \A i \in 1..Len(jobs') :
                    /\ jobs'[i].name = NameIn(es[
                           CHOOSE f \in first :
                               Cardinality({g \in first : g < f}) = i - 1])
                    /\ \E k \in last :
                          /\ NameIn(es[k]) = jobs'[i].name
                          /\ \A f \in Fields :
                                es[k][f] # None => jobs'[i][f] = es[k][f][1]
              /\ lastOp'.result = "returned"]_vars

\* a load of two records of one name over a registry: the one job left has
\* the fields of the second record
C33_Witness ==
    /\ lastOp.op = "load_config"
    /\ lastOp.args[1].dirOk
    /\ ListsJobRecords(config)
    /\ Len(config.jobs) = 2
    /\ config.jobs[1].name = config.jobs[2].name
    /\ config.jobs[1].source_dir # None
    /\ config.jobs[2].source_dir = None
    /\ Len(jobs) = 1
    /\ jobs[1].source_dir = ""

AcceptedAt(n) == dialog # None /\ dialog[1].pc = n

\* C35: once the dialog has closed as accepted the next thing that happens
\* is load_config, with the timers untouched, and the next after that is
\* setup_timers on the registry the load left, and then show_config_dialog
\* is over; a cancelled dialog ends it at once with the registry, the file
\* and the timers as they were
C35_ReloadThenReconfigure ==
    /\ [][lastOp'.op = "accept" => AcceptedAt("L76")']_vars
    /\ [][AcceptedAt("L76") =>
             /\ lastOp'.op = "load_config"
             /\ AcceptedAt("L77")'
             /\ UNCHANGED <<timers, stale, clock, config>>]_vars
    /\ [][AcceptedAt("L77") =>
             /\ lastOp'.op = "setup_timers"
             /\ dialog' = None
             /\ UNCHANGED <<jobs, config>>
             /\ TimersMatch(jobs)']_vars
    /\ [][lastOp'.op = "reject" =>
             /\ dialog' = None
             /\ UNCHANGED <<jobs, config, timers, stale, clock>>]_vars

\* show_config_dialog has returned after an accepted dialog for the second
\* time: the timer of the first time was stopped and job1 has a timer
C35_Witness ==
    /\ lastOp.op = "setup_timers"
    /\ lastOp.args[1].stopped = 1
    /\ dialog = None
    /\ Len(jobs) = 2
    /\ Len(timers) = 1
    /\ timers[1].name = "job1"

\* C36: when show_config_dialog returns after an accepted dialog the
\* registry is the working set of the dialog and the timers are those of
\* that set, whether the file was written or not
C36_RegistryIsWorkingSet ==
    [][AcceptedAt("L77") =>
          \E working \in {dialog[1].jobs} :
              /\ jobs' = working
              /\ TimersMatch(working)']_vars

\* C37: Add, Save Job and Remove change the working set of the dialog only:
\* the registry, every field of every job in it, the file and the timers
\* stay as they are while the dialog is on the screen, and Cancel leaves
\* them so
C37_EditsStayInDialog ==
    [][(Executing /\ lastOp'.op # "accept") =>
          /\ lastOp'.op \in {"dialog_add", "dialog_save", "dialog_remove",
                              "reject"}
          /\ UNCHANGED <<jobs, config, timers, stale>>]_vars

\* the one job of the registry, Job-1, has been renamed and filled in in the
\* dialog: the registry still has it blank under its old name
C37_Witness ==
    /\ Executing
    /\ lastOp.op = "dialog_save"
    /\ lastOp.result = "returned"
    /\ Len(jobs) = 1
    /\ jobs[1].name = "Job-1"
    /\ jobs[1].source_dir = ""
    /\ Len(dialog[1].jobs) = 1
    /\ dialog[1].jobs[1].name = "job1"
    /\ dialog[1].jobs[1].source_dir # ""

Records(d) == {d[i] : i \in 1..Len(d)}

\* C38: Add puts one more job into the working set of the dialog and leaves
\* every job that was in it as it was
C38_AddCreatesOneJob ==
    [][lastOp'.op = "dialog_add" =>
          /\ Len(dialog'[1].jobs) = Len(dialog[1].jobs) + 1
          /\ Records(dialog[1].jobs) \subseteq Records(dialog'[1].jobs)]_vars

\* C39: Save Job leaves the working set with as many jobs as it had, and
\* takes away or changes no job but the selected one
C39_SaveChangesOneJob ==
    [][lastOp'.op = "dialog_save" =>
          /\ Len(dialog'[1].jobs) = Len(dialog[1].jobs)
          /\ Cardinality(Records(dialog[1].jobs)
                             \ Records(dialog'[1].jobs)) <= 1]_vars

\* C30: every job of the registry has a name, a source directory and a
\* destination directory that are not empty
C30_NonEmptyFields ==
    \A i \in 1..Len(jobs) :
        /\ jobs[i].name # ""
        /\ jobs[i].source_dir # ""
        /\ jobs[i].dest_dir # ""

\* C19: add_job on a registered name replaces the whole record: the entry
\* has the six fields of the call (options defaulted when not given) and
\* nothing else, it keeps its place, and the other entries are unchanged
C19_UpsertReplaces ==
    [][(lastOp'.op = "add_job" /\ Has(jobs, lastOp'.name)) =>
          LET n == lastOp'.name
              a == lastOp'.args[1]
              i == CHOOSE k \in 1..Len(jobs) : jobs[k].name = n
          IN  /\ Len(jobs') = Len(jobs)
              /\ DOMAIN jobs'[i] = Fields
              /\ jobs'[i].name = n
              /\ jobs'[i].source_dir = a.source_dir
              /\ jobs'[i].dest_dir = a.dest_dir
              /\ jobs'[i].options =
                    IF a.options = None THEN <<"-av", "--delete">>
                                        ELSE a.options[1]
              /\ jobs'[i].auto_sync = a.auto_sync
              /\ jobs'[i].interval = a.interval
              /\ OthersUnchanged(jobs, jobs', n)
              /\ lastOp'.result = "returned"]_vars

\* the last call was add_job for the first of two jobs: a new name would
\* have gone last, so the call replaced a record
C19_Witness ==
    /\ lastOp.op = "add_job"
    /\ Len(jobs) = 2
    /\ lastOp.name = jobs[1].name
    /\ jobs[1].options = <<"-avz">>
    /\ jobs[1].auto_sync
    /\ jobs[1].interval = 15

\* C20: remove_job deletes the entry of the name and no other; for a name
\* that is not registered it leaves the registry as it is; it raises
\* nothing and emits nothing
C20_RemoveExactlyOne ==
    [][lastOp'.op = "remove_job" =>
          LET n == lastOp'.name
          IN  /\ Keys(jobs') = Keys(jobs) \ {n}
              /\ Len(jobs') = Cardinality(Keys(jobs'))
              /\ OthersUnchanged(jobs, jobs', n)
              /\ ~ Has(jobs, n) => jobs' = jobs
              /\ lastOp'.args[1].found = Has(jobs, n)
              /\ lastOp'.result = "returned"
              /\ events' = <<>>]_vars

C20_Witness ==
    /\ lastOp.op = "remove_job"
    /\ lastOp.args[1].found
    /\ Len(jobs) = 1
    /\ jobs[1].name # lastOp.name

====
